---- MODULE Spec2Model ----
(***************************************************************************)
(* Model of the Drive ingestion job (main.py): the content-extraction      *)
(* router extract_file_content, its three delegates, and the batch loop    *)
(* run_ingestion_job.                                                       *)
(*                                                                         *)
(* A Python str is a sequence of Unicode code points, a bytes object a     *)
(* sequence of integers 0..255.  MIME types, file names and timestamps are *)
(* only compared or copied by the program and stay TLA+ strings.           *)
(* A return value is [kind |-> "str", val |-> s], [kind |-> "none"]        *)
(* (Python None) or [kind |-> "raise"] (an exception left the function).   *)
(***************************************************************************)
EXTENDS Integers, Sequences, FiniteSets, TLC

VARIABLES
    pc,             \* position of run_ingestion_job
    failure,        \* which fatal step failed: "none", "setup", "listing"
    files,          \* the listing returned by Drive
    idx,            \* number of listed files the for loop has taken
    log,            \* one entry per loop iteration: file, delegate called, Drive outcome, return value
    jsonl_records,  \* the accumulating list of records
    uploads,        \* the contents passed to upload_from_string, one per call
    sheet,          \* SheetSpec: the spreadsheet Drive is asked to export
    flat            \* SheetSpec: what extract_sheet_content returned for it

vars == <<pc, failure, files, idx, log, jsonl_records, uploads, sheet, flat>>

----------------------------------------------------------------------------
\* Bounds of the model.

\* Largest number of files a listing returns.
MaxFiles == 2

\* Largest number of cells of a spreadsheet (rows * columns) in SheetSpec.
MaxCells == 6

----------------------------------------------------------------------------
\* Strings of the program, as code points.

\* "Content extraction skipped"
ContentExtractionSkipped ==
    <<67, 111, 110, 116, 101, 110, 116, 32, 101, 120, 116, 114, 97, 99, 116,
      105, 111, 110, 32, 115, 107, 105, 112, 112, 101, 100>>

\* "Export Failed"
ExportFailed == <<69, 120, 112, 111, 114, 116, 32, 70, 97, 105, 108, 101, 100>>

\* "Download Failed"
DownloadFailed ==
    <<68, 111, 119, 110, 108, 111, 97, 100, 32, 70, 97, 105, 108, 101, 100>>

\* "Sheet Export Failed"
SheetExportFailed ==
    <<83, 104, 101, 101, 116, 32, 69, 120, 112, 111, 114, 116, 32, 70, 97,
      105, 108, 101, 100>>

\* ": ", between a diagnostic prefix and the error text in the f-strings
ColonSpace == <<58, 32>>

\* "Binary Content (PDF) Downloaded. OCR/Extraction required."
PdfPlaceholder ==
    <<66, 105, 110, 97, 114, 121, 32, 67, 111, 110, 116, 101, 110, 116, 32,
      40, 80, 68, 70, 41, 32, 68, 111, 119, 110, 108, 111, 97, 100, 101, 100,
      46, 32, 79, 67, 82, 47, 69, 120, 116, 114, 97, 99, 116, 105, 111, 110,
      32, 114, 101, 113, 117, 105, 114, 101, 100, 46>>

\* " ", the separator of the cells of a row
CellSep == <<32>>

\* " | ", the separator of the rows
RowSep == <<32, 124, 32>>

\* The prefixes run_ingestion_job tests with startswith.
FailurePrefixes == <<ContentExtractionSkipped, ExportFailed, DownloadFailed>>

\* MIMETYPES: Drive MIME type -> export format.
MIMETYPES ==
    [m \in {"application/vnd.google-apps.document",
            "application/vnd.google-apps.presentation",
            "application/vnd.google-apps.spreadsheet",
            "text/plain",
            "application/pdf"} |->
        CASE m = "application/vnd.google-apps.document" -> "text/plain"
          [] m = "application/vnd.google-apps.presentation" -> "text/plain"
          [] m = "application/vnd.google-apps.spreadsheet" -> "text/csv"
          [] m = "text/plain" -> "text/plain"
          [] m = "application/pdf" -> "application/pdf"]

\* MIMETYPES.values()
MimeValues == {MIMETYPES[m] : m \in DOMAIN MIMETYPES}

----------------------------------------------------------------------------
\* Return values.

Str(s) == [kind |-> "str", val |-> s]
None == [kind |-> "none"]
Raise == [kind |-> "raise"]

\* str.startswith(prefix)
StartsWith(s, p) == Len(s) >= Len(p) /\ SubSeq(s, 1, Len(p)) = p

\* str.startswith(tuple of prefixes)
StartsWithAny(s, ps) == \E k \in 1..Len(ps) : StartsWith(s, ps[k])

\* sep.join(parts)
RECURSIVE Join(_, _)
Join(sep, parts) ==
    IF parts = <<>> THEN <<>>
    ELSE IF Len(parts) = 1 THEN parts[1]
    ELSE parts[1] \o sep \o Join(sep, Tail(parts))

----------------------------------------------------------------------------
\* bytes.decode('utf-8'): [ok |-> TRUE, val |-> str], or [ok |-> FALSE] for
\* UnicodeDecodeError.

IsCont(b) == b >= 128 /\ b <= 191

RECURSIVE Utf8Dec(_, _, _)
Utf8Dec(b, i, acc) ==
    IF i > Len(b) THEN [ok |-> TRUE, val |-> acc]
    ELSE LET c == b[i]
             has(n) == i + n <= Len(b) /\ \A k \in 1..n : IsCont(b[i + k])
         IN
         IF c < 128 THEN Utf8Dec(b, i + 1, Append(acc, c))
         ELSE IF c >= 194 /\ c <= 223 /\ has(1)
         THEN Utf8Dec(b, i + 2, Append(acc, (c - 192) * 64 + (b[i + 1] - 128)))
         ELSE IF c >= 224 /\ c <= 239 /\ has(2)
                 /\ (c = 224 => b[i + 1] >= 160)
                 /\ (c = 237 => b[i + 1] <= 159)
         THEN Utf8Dec(b, i + 3,
                      Append(acc, (c - 224) * 4096 + (b[i + 1] - 128) * 64
                                  + (b[i + 2] - 128)))
         ELSE IF c >= 240 /\ c <= 244 /\ has(3)
                 /\ (c = 240 => b[i + 1] >= 144)
                 /\ (c = 244 => b[i + 1] <= 143)
         THEN Utf8Dec(b, i + 4,
                      Append(acc, (c - 240) * 262144 + (b[i + 1] - 128) * 4096
                                  + (b[i + 2] - 128) * 64 + (b[i + 3] - 128)))
         ELSE [ok |-> FALSE]

Utf8Decode(b) == Utf8Dec(b, 1, <<>>)

\* The bytes Drive sends for a text: its UTF-8 encoding.
RECURSIVE Utf8Encode(_)
Utf8Encode(s) ==
    IF s = <<>> THEN <<>>
    ELSE LET c == Head(s)
             enc == IF c < 128 THEN <<c>>
                    ELSE IF c < 2048
                    THEN <<192 + (c \div 64), 128 + (c % 64)>>
                    ELSE IF c < 65536
                    THEN <<224 + (c \div 4096), 128 + ((c \div 64) % 64),
                           128 + (c % 64)>>
                    ELSE <<240 + (c \div 262144), 128 + ((c \div 4096) % 64),
                           128 + ((c \div 64) % 64), 128 + (c % 64)>>
         IN enc \o Utf8Encode(Tail(s))

----------------------------------------------------------------------------
\* csv.reader(io.StringIO(csv_string)) with the default dialect: delimiter
\* ',', quotechar '"', doublequote, no escapechar, not strict.  StringIO
\* hands the reader one line at a time, a line ending at each "\n"; the
\* reader feeds itself the end-of-line mark EOL after the characters of
\* each line.

EOL == -1
LF == 10
CR == 13
Quote == 34
Comma == 44

\* The reader's state: parser state, the fields of the record so far, the
\* field being collected, and whether csv.Error was raised.
ReaderReset == [st |-> "START_RECORD", fields |-> <<>>, field |-> <<>>, err |-> FALSE]

\* parse_process_char
ProcessChar(S, c) ==
    LET save(next) == [S EXCEPT !.fields = Append(@, S.field),
                                !.field = <<>>, !.st = next]
        add(next) == [S EXCEPT !.field = Append(@, c), !.st = next]
        afterEol == IF c = EOL THEN "START_RECORD" ELSE "EAT_CRNL"
        isEol == c \in {LF, CR, EOL}
    IN
    IF S.st = "START_RECORD" /\ c = EOL THEN S
    ELSE IF S.st = "START_RECORD" /\ c \in {LF, CR}
    THEN [S EXCEPT !.st = "EAT_CRNL"]
    ELSE IF S.st \in {"START_RECORD", "START_FIELD"}
    THEN IF isEol THEN save(afterEol)
         ELSE IF c = Quote THEN [S EXCEPT !.st = "IN_QUOTED_FIELD"]
         ELSE IF c = Comma THEN save("START_FIELD")
         ELSE add("IN_FIELD")
    ELSE IF S.st = "IN_FIELD"
    THEN IF isEol THEN save(afterEol)
         ELSE IF c = Comma THEN save("START_FIELD")
         ELSE add("IN_FIELD")
    ELSE IF S.st = "IN_QUOTED_FIELD"
    THEN IF c = EOL THEN S
         ELSE IF c = Quote THEN [S EXCEPT !.st = "QUOTE_IN_QUOTED_FIELD"]
         ELSE add("IN_QUOTED_FIELD")
    ELSE IF S.st = "QUOTE_IN_QUOTED_FIELD"
    THEN IF c = Quote THEN add("IN_QUOTED_FIELD")
         ELSE IF c = Comma THEN save("START_FIELD")
         ELSE IF isEol THEN save(afterEol)
         ELSE add("IN_FIELD")
    ELSE \* EAT_CRNL
         IF c \in {LF, CR} THEN S
         ELSE IF c = EOL THEN [S EXCEPT !.st = "START_RECORD"]
         ELSE [S EXCEPT !.err = TRUE]

\* The rows the reader yields for the string s, read from position i on with
\* the reader in state S: [err |-> FALSE, rows |-> ...], or [err |-> TRUE]
\* when csv.Error is raised.
RECURSIVE CsvScan(_, _, _, _)
CsvScan(s, i, S, rows) ==
    IF S.err THEN [err |-> TRUE]
    ELSE IF i > Len(s)
    THEN \* no further line
         IF S.field # <<>> \/ S.st = "IN_QUOTED_FIELD"
         THEN [err |-> FALSE, rows |-> Append(rows, Append(S.fields, S.field))]
         ELSE [err |-> FALSE, rows |-> rows]
    ELSE LET S1 == ProcessChar(S, s[i])
             lineEnds == s[i] = LF \/ i = Len(s)
             S2 == IF lineEnds /\ ~S1.err THEN ProcessChar(S1, EOL) ELSE S1
         IN
         IF lineEnds /\ ~S2.err /\ S2.st = "START_RECORD"
         THEN CsvScan(s, i + 1, ReaderReset, Append(rows, S2.fields))
         ELSE CsvScan(s, i + 1, S2, rows)

CsvReader(s) == CsvScan(s, 1, ReaderReset, <<>>)

----------------------------------------------------------------------------
\* What a Drive call can answer: HttpError with its text, or a body.

\* str(error) of an HttpError: "403"
ErrText == <<52, 48, 51>>

HttpError == [kind |-> "HttpError", error |-> ErrText]
Body(b) == [kind |-> "ok", body |-> b]
\* no Drive call was made
NoResp == [kind |-> "nocall"]

----------------------------------------------------------------------------
\* The three delegates.  resp is what Drive answers to the delegate's call.

\* download_file.  lib: whether the storage module has the attribute
\* MediaIoBaseDownload the function looks up before it downloads; the
\* AttributeError of a module without it is no HttpError and is not caught.
download_file(resp, mime_type, lib) ==
    IF ~lib THEN Raise
    ELSE IF resp.kind = "HttpError"
    THEN Str(DownloadFailed \o ColonSpace \o resp.error)
    ELSE IF mime_type = "application/pdf" THEN Str(PdfPlaceholder)
    ELSE LET d == Utf8Decode(resp.body)
         IN IF d.ok THEN Str(d.val) ELSE Raise

\* export_google_doc
export_google_doc(resp, export_mime) ==
    IF resp.kind = "HttpError"
    THEN Str(ExportFailed \o ColonSpace \o resp.error)
    ELSE LET d == Utf8Decode(resp.body)
         IN IF d.ok THEN Str(d.val) ELSE Raise

\* " ".join(filter(None, row))
RowTextJoinAll(row) == Join(CellSep, row)
RowText(row) == Join(CellSep, SelectSeq(row, LAMBDA cell : cell # <<>>))

\* " | ".join(all_content)
FlattenRows(rows) == Join(RowSep, [r \in 1..Len(rows) |-> RowText(rows[r])])

\* extract_sheet_content
extract_sheet_content(resp) ==
    IF resp.kind = "HttpError"
    THEN Str(SheetExportFailed \o ColonSpace \o resp.error)
    ELSE LET d == Utf8Decode(resp.body)
         IN IF ~d.ok THEN Raise
            ELSE LET rd == CsvReader(d.val)
                 IN IF rd.err THEN Raise ELSE Str(FlattenRows(rd.rows))

----------------------------------------------------------------------------
\* extract_file_content: the router.

\* The delegate the router calls for a MIME type, "none" when it calls none.
Route(file_mime) ==
    IF file_mime \in DOMAIN MIMETYPES
    THEN IF MIMETYPES[file_mime] = "text/csv" THEN "extract_sheet_content"
         ELSE IF MIMETYPES[file_mime] = "text/plain" THEN "export_google_doc"
         ELSE "none"
    ELSE IF file_mime \in MimeValues THEN "download_file"
    ELSE "none"

\* The router's return value.
extract_file_content(file_mime, resp, lib) ==
    IF file_mime \in DOMAIN MIMETYPES
    THEN IF MIMETYPES[file_mime] = "text/csv"
         THEN extract_sheet_content(resp)
         ELSE IF MIMETYPES[file_mime] = "text/plain"
         THEN export_google_doc(resp, MIMETYPES[file_mime])
         ELSE None   \* neither branch returns: the function falls off its end
    ELSE IF file_mime \in MimeValues
    THEN download_file(resp, file_mime, lib)
    ELSE Str(<<>>)

----------------------------------------------------------------------------
\* What Drive holds and answers.

MimeTypes ==
    DOMAIN MIMETYPES \cup {"text/csv", "image/png"}

\* Bodies Drive can send for a file.
Payloads ==
    { <<>>,                                        \* an empty file
      <<72, 101, 108, 108, 111>>,                  \* Hello
      <<195, 169>>,                                \* e acute, two bytes
      <<255>>,                                     \* not UTF-8
      <<97, 44, 44, 98, 13, 10, 44, 99, 44>>,      \* a,,b CRLF ,c,
      <<97, 13, 98>>,                              \* a CR b
      ExportFailed }                               \* a text that begins "Export Failed"

Responses == {HttpError} \cup {Body(b) : b \in Payloads}

\* The file descriptor Drive lists at position i.  Drive ids are unique;
\* name and modifiedTime are tied to the id.
FileAt(i, mime) ==
    [id |-> i, name |-> <<"name", i>>, mimeType |-> mime,
     modifiedTime |-> <<"modified", i>>]

Listings ==
    UNION { {[i \in 1..n |-> FileAt(i, ms[i])] : ms \in [1..n -> MimeTypes]}
            : n \in 0..MaxFiles }

----------------------------------------------------------------------------
\* run_ingestion_job.

\* json.dumps(record): the record's five fields.
Record(file, extracted_text) ==
    [document_id |-> file.id,
     file_name |-> file.name,
     text_content |-> extracted_text,
     last_modified_date |-> file.modifiedTime,
     source |-> "Google Drive"]

\* extracted_text and not extracted_text.startswith((...))
IsContentNoPrefixTest(ret) == ret.kind = "str" /\ ret.val # <<>>
IsContent(ret) ==
    /\ ret.kind = "str"
    /\ ret.val # <<>>
    /\ ~StartsWithAny(ret.val, FailurePrefixes)

Init ==
    /\ pc = "setup"
    /\ failure = "none"
    /\ files = <<>>
    /\ idx = 0
    /\ log = <<>>
    /\ jsonl_records = <<>>
    /\ uploads = <<>>
    /\ sheet = <<>>
    /\ flat = None

\* 1. Client setup: any exception is caught and the job returns.
ClientSetupNoReturn ==
    /\ pc = "setup"
    /\ \E ok \in BOOLEAN :
          /\ pc' = "list"
          /\ failure' = IF ok THEN "none" ELSE "setup"
    /\ UNCHANGED <<files, idx, log, jsonl_records, uploads, sheet, flat>>
ClientSetup ==
    /\ pc = "setup"
    /\ \E ok \in BOOLEAN :
          IF ok THEN pc' = "list" /\ failure' = "none"
          ELSE pc' = "returned" /\ failure' = "setup"
    /\ UNCHANGED <<files, idx, log, jsonl_records, uploads, sheet, flat>>

\* 4. The listing query: HttpError is caught and the job returns; any other
\* exception of the call leaves the job.
ListFiles ==
    /\ pc = "list"
    /\ \/ \E fs \in Listings : files' = fs /\ pc' = "loop" /\ failure' = failure
       \/ files' = files /\ pc' = "returned" /\ failure' = "listing"
       \/ files' = files /\ pc' = "crashed" /\ failure' = "listing"
    /\ UNCHANGED <<idx, log, jsonl_records, uploads, sheet, flat>>

\* One iteration of the for loop: route the file, keep a record or skip.
\* An exception of the delegate leaves the loop and the job.
ProcessFile ==
    /\ pc = "loop"
    /\ idx < Len(files)
    /\ LET file == files[idx + 1]
           d == Route(file.mimeType)
       IN \E resp \in (IF d = "none" THEN {NoResp} ELSE Responses),
             lib \in (IF d = "download_file" THEN BOOLEAN ELSE {TRUE}) :
            LET ret == extract_file_content(file.mimeType, resp, lib)
            IN /\ log' = Append(log, [file |-> file, delegate |-> d,
                                      resp |-> resp, lib |-> lib, ret |-> ret])
               /\ IF ret.kind = "raise"
                  THEN pc' = "crashed" /\ UNCHANGED <<idx, jsonl_records>>
                  ELSE /\ pc' = pc
                       /\ idx' = idx + 1
                       /\ jsonl_records' =
                            IF IsContent(ret)
                            THEN Append(jsonl_records, Record(file, ret.val))
                            ELSE jsonl_records
    /\ UNCHANGED <<failure, files, uploads, sheet, flat>>

\* 5. After the loop: one upload of all records, or none.  The lines of the
\* uploaded text are the records; an exception of the upload call leaves
\* the job.
Upload ==
    /\ pc = "loop"
    /\ idx = Len(files)
    /\ IF jsonl_records # <<>>
       THEN /\ uploads' = Append(uploads, [lines |-> jsonl_records,
                                           content_type |-> "application/x-ndjson"])
            /\ pc' \in {"done", "crashed"}
       ELSE /\ uploads' = uploads
            /\ pc' = "done"
    /\ UNCHANGED <<failure, files, idx, log, jsonl_records, sheet, flat>>

Next == ClientSetup \/ ListFiles \/ ProcessFile \/ Upload

Spec == Init /\ [][Next]_vars

----------------------------------------------------------------------------
\* extract_sheet_content on its own: Drive is asked for the CSV export of a
\* spreadsheet and the function flattens what it is sent.

\* Cell values: empty, "a", e acute + space + "b", and comma + quote + LF.
Cells == { <<>>, <<97>>, <<233, 32, 98>>, <<44, 34, 10>> }

\* The spreadsheet [a, empty, b], [empty, c, empty].
ExampleSheet == << <<<<97>>, <<>>, <<98>>>>, <<<<>>, <<99>>, <<>>>> >>

\* The data ranges Drive exports: rectangular, and ending at the last row
\* that holds a value.
Sheets ==
    {<<>>, ExampleSheet} \cup
    UNION { {sh \in [1..r -> [1..c -> Cells]] : \E k \in 1..c : sh[r][k] # <<>>}
            : <<r, c>> \in {rc \in (1..MaxCells) \X (1..MaxCells) :
                               rc[1] * rc[2] <= MaxCells} }

\* Drive's CSV rendering of a cell: quoted, with its quotes doubled, when it
\* holds a comma, a quote or a line break.
RECURSIVE DoubleQuotes(_)
DoubleQuotes(cell) ==
    IF cell = <<>> THEN <<>>
    ELSE (IF Head(cell) = Quote THEN <<Quote, Quote>> ELSE <<Head(cell)>>)
         \o DoubleQuotes(Tail(cell))

CsvCell(cell) ==
    IF \E k \in 1..Len(cell) : cell[k] \in {Comma, Quote, CR, LF}
    THEN <<Quote>> \o DoubleQuotes(cell) \o <<Quote>>
    ELSE cell

\* Drive's CSV export: cells joined with commas, rows with CR LF.
CsvExport(rows) ==
    Join(<<CR, LF>>,
         [r \in 1..Len(rows) |->
            Join(<<Comma>>, [k \in 1..Len(rows[r]) |-> CsvCell(rows[r][k])])])

SheetInit ==
    /\ pc = "sheet"
    /\ sheet \in Sheets
    /\ flat = None
    /\ failure = "none"
    /\ files = <<>>
    /\ idx = 0
    /\ log = <<>>
    /\ jsonl_records = <<>>
    /\ uploads = <<>>

\* extract_sheet_content(drive_service, file_id) for the spreadsheet.
ExtractSheet ==
    /\ pc = "sheet"
    /\ \E resp \in {HttpError, Body(Utf8Encode(CsvExport(sheet)))} :
          /\ flat' = extract_sheet_content(resp)
          /\ pc' = IF resp.kind = "HttpError" THEN "sheet_failed" ELSE "sheet_exported"
    /\ UNCHANGED <<failure, files, idx, log, jsonl_records, uploads, sheet>>

SheetNext == ExtractSheet

SheetSpec == SheetInit /\ [][SheetNext]_vars

----------------------------------------------------------------------------
\* Properties.

\* The listed file with this id has a record in the accumulating output.
HasRecord(id) ==
    \E j \in 1..Len(jsonl_records) : jsonl_records[j].document_id = id

\* The job has ended, by completing, by returning early or by an exception.
Ended == pc \in {"done", "returned", "crashed"}

\* C1: every file whose content type is text/plain or application/pdf is
\* handed to download_file, and the router returns what download_file
\* returns.
C1_NonNativeIsDownloaded ==
    \A i \in 1..Len(log) :
        log[i].file.mimeType \in {"text/plain", "application/pdf"} =>
            /\ log[i].delegate = "download_file"
            /\ log[i].ret = download_file(log[i].resp, log[i].file.mimeType,
                                          log[i].lib)

\* C2: for every application/pdf file the router returns the fixed
\* placeholder text.
C2_PdfGivesPlaceholder ==
    \A i \in 1..Len(log) :
        log[i].file.mimeType = "application/pdf" =>
            log[i].ret = [kind |-> "str", val |-> PdfPlaceholder]

\* C3: a listed file has a record in the output exactly when the router
\* returned, for it, a non-empty string that begins with none of the failure
\* markers the job knows; whatever is uploaded is that output.
C3_ReturnedText(e) ==
    /\ e.ret.kind = "str"
    /\ Len(e.ret.val) > 0
    /\ \A m \in {ContentExtractionSkipped, ExportFailed, DownloadFailed} :
          ~(Len(e.ret.val) >= Len(m) /\ SubSeq(e.ret.val, 1, Len(m)) = m)

C4_TransportErrorExcluded ==
    \A i \in 1..Len(log) :
        (log[i].resp.kind = "HttpError" /\ log[i].lib) =>
            /\ log[i].ret.kind = "str"
            /\ ~HasRecord(log[i].file.id)

\* C5: a transport error or a body that is not UTF-8 never aborts the run:
\* the delegate returns a string and the job does not end by an exception.
C5_FailureNeverAborts ==
    \A i \in 1..Len(log) :
        (/\ log[i].lib
         /\ \/ log[i].resp.kind = "HttpError"
            \/ log[i].resp.kind = "ok" /\ ~Utf8Decode(log[i].resp.body).ok) =>
            /\ log[i].ret.kind = "str"
            /\ pc # "crashed"

\* C6: for every content type that is no key of MIMETYPES the router calls
\* no delegate and returns the empty string, and the file gets no record.
C6_UnsupportedIsSkipped ==
    \A i \in 1..Len(log) :
        log[i].file.mimeType \notin DOMAIN MIMETYPES =>
            /\ log[i].delegate = "none"
            /\ log[i].ret = [kind |-> "str", val |-> <<>>]
            /\ ~HasRecord(log[i].file.id)

\* C7: for every exported spreadsheet, extract_sheet_content returns the
\* rows joined with " | ", each row being its non-empty cells joined with a
\* single space.
RECURSIVE C7_NonEmptyCells(_)
C7_NonEmptyCells(row) ==
    IF row = <<>> THEN <<>>
    ELSE IF Head(row) = <<>> THEN C7_NonEmptyCells(Tail(row))
    ELSE <<Head(row)>> \o C7_NonEmptyCells(Tail(row))

RECURSIVE C7_Separated(_, _)
C7_Separated(parts, sep) ==
    IF Len(parts) = 0 THEN <<>>
    ELSE IF Len(parts) = 1 THEN parts[1]
    ELSE C7_Separated(SubSeq(parts, 1, Len(parts) - 1), sep)
         \o sep \o parts[Len(parts)]

C7_SheetText(rows) ==
    C7_Separated([r \in 1..Len(rows) |->
                     C7_Separated(C7_NonEmptyCells(rows[r]), <<32>>)],
                 <<32, 124, 32>>)

C7_SheetIsFlattened ==
    pc = "sheet_exported" => flat = [kind |-> "str", val |-> C7_SheetText(sheet)]

\* C7 witness: the spreadsheet [a, empty, b], [empty, c, empty] was exported
\* and flattened to "a b | c".
C7_Witness ==
    /\ pc = "sheet_exported"
    /\ sheet = ExampleSheet
    /\ flat = [kind |-> "str", val |-> <<97, 32, 98, 32, 124, 32, 99>>]

\* C8: when a run has ended, the number of upload calls is one if a record
\* was produced and zero otherwise, and an upload is made only after every
\* listed file was processed.
C8_OneUploadIffRecords ==
    /\ Ended => Len(uploads) = (IF jsonl_records # <<>> THEN 1 ELSE 0)
    /\ uploads # <<>> => Len(log) = Len(files)

\* C9: when client setup or the listing query fails, the job ends there: no
\* file is passed to the router, no record is created, nothing is uploaded.
C9_FatalFailureAborts ==
    failure # "none" =>
        /\ pc \in {"returned", "crashed"}
        /\ log = <<>>
        /\ jsonl_records = <<>>
        /\ uploads = <<>>

\* C9 witness: the listing query failed after a successful setup.
C9_Witness == failure = "listing" /\ pc = "returned"

\* C10: the output of a completed run holds exactly one record per file
\* whose extraction succeeded (Drive answered and the delegate returned
\* non-empty text), with the file's id, name, text, modifiedTime and the
\* source tag, in listing order, and no other record.
C10_Succeeded(e) ==
    /\ e.delegate # "none"
    /\ e.resp.kind = "ok"
    /\ e.ret.kind = "str"
    /\ e.ret.val # <<>>

RECURSIVE C10_Expected(_)
C10_Expected(entries) ==
    IF entries = <<>> THEN <<>>
    ELSE LET e == Head(entries)
         IN (IF C10_Succeeded(e)
             THEN << [document_id |-> e.file.id,
                      file_name |-> e.file.name,
                      text_content |-> e.ret.val,
                      last_modified_date |-> e.file.modifiedTime,
                      source |-> "Google Drive"] >>
             ELSE <<>>)
            \o C10_Expected(Tail(entries))

C10_OneRecordPerSuccess ==
    pc = "done" =>
        /\ jsonl_records = C10_Expected(log)
        /\ C10_Expected(log) # <<>> =>
              /\ Len(uploads) = 1
              /\ uploads[1].lines = C10_Expected(log)

====
